---- MODULE Spec2Model ----
(***************************************************************************)
(* FIFOCache (src/fifo_cache.hpp) in front of SQLiteDB                     *)
(* (src/persistent_db.hpp).                                                *)
(*                                                                         *)
(* A std::string is a finite sequence of bytes; byte 0 is NUL.  The cache  *)
(* keeps std::string keys and values as they are; the store receives them  *)
(* through c_str() with length -1, i.e. cut at the first NUL byte.         *)
(*                                                                         *)
(* current_size is a size_t (64 bit, unsigned).  The model keeps it as the *)
(* two's complement representative of the 64-bit value: a negative number  *)
(* n stands for the wrapped value 2^64 + n.  Additions and subtractions    *)
(* modulo 2^64 are then plain integer operations (all magnitudes stay far  *)
(* below 2^31), and the unsigned comparison is UGt.                        *)
(***************************************************************************)
EXTENDS Integers, Sequences, FiniteSets, TLC

VARIABLES
    cache,          \* std::unordered_map<string,string> cache
    queue,          \* std::queue<string> queue (front = head)
    current_size,   \* size_t current_size (representative, see above)
    store,          \* rows of table cache_data: key -> value
    db_open,        \* SQLiteDB::db != nullptr
    pc,             \* per thread: where it stands inside get/put/remove
    key,            \* per thread: argument key of the running call
    value,          \* per thread: argument value (put) or value read (get)
    removed_from_db,\* per thread: local of remove()
    cache_mutex,    \* per thread: how it holds std::shared_mutex cache_mutex
    db_mutex,       \* the thread that holds SQLiteDB::db_mutex, or NoThread
    pre_store,      \* history, per thread: the store as the running remove
                    \* found it
    last,           \* history: the call that completed most recently
    prev,           \* history: the call that completed before last, kept
                    \* when it was on the same key as last
    written,        \* history: key -> value of the latest put, dropped by remove
    evicted,        \* history: keys popped by the latest insertToCache
    budget          \* calls that may still be started

vars == <<cache, queue, current_size, store, db_open, pc, key, value,
          removed_from_db, cache_mutex, db_mutex, pre_store, last, prev,
          written, evicted, budget>>

----------------------------------------------------------------------------
(* Bounds of the exploration *)

MaxOps == 4
MaxOpsSeq == 4
MaxOpsDrift == 6
MaxOpsPuts == 4
MaxOpsRace == 3
MaxOpsTwoGets == 7
MaxOpsGets == 5
GetCalls == 3
MaxOpsLocks == 3
MaxOpsWriters == 3

MAX_SIZE == 50

Threads == {1, 2}
NoThread == 0

----------------------------------------------------------------------------
(* Strings *)

NUL == 0

Rep(ch, n) == [i \in 1..n |-> ch]

EmptyStr == <<>>

\* const char* view of a std::string: the bytes before the first NUL
CStr(s) ==
    IF \E i \in 1..Len(s) : s[i] = NUL
    THEN LET first == CHOOSE i \in 1..Len(s) :
                          s[i] = NUL /\ \A j \in 1..(i - 1) : s[j] # NUL
         IN SubSeq(s, 1, first - 1)
    ELSE s

\* inputs of the calls: "a", "b", "c", "\0"; "", 20 x 'A', 49 x 'A',
\* 60 x 'A' (more than MAX_SIZE), "A\0B"
KeyA == <<97>>
KeyB == <<98>>
KeyC == <<99>>
KeyNul == <<NUL>>
ValNul == <<65, NUL, 66>>

\* one thread
Keys == {EmptyStr, KeyA, KeyB, KeyNul}
Values == {EmptyStr, Rep(65, 20), Rep(65, 49), Rep(65, 60), ValNul}

\* two threads (fewer inputs)
ConcKeys == {EmptyStr, KeyA, KeyB}
ConcValues == {EmptyStr, Rep(65, 49), Rep(65, 60)}

\* one thread, long runs
DriftKeys == {KeyA, KeyB, KeyC}
RaceValues == {EmptyStr, <<66>>, Rep(65, 20), Rep(66, 20), Rep(65, 49),
               Rep(66, 49)}
LockKeys == {EmptyStr, KeyB}
LockValues == {EmptyStr}
DriftValues == {EmptyStr, Rep(65, 20), Rep(65, 49)}

----------------------------------------------------------------------------
(* Sequences and maps *)

Range(q) == {q[i] : i \in 1..Len(q)}

NoDup(q) == \A i, j \in 1..Len(q) : q[i] = q[j] => i = j

\* x stands before y in q
Before(q, x, y) ==
    \E i, j \in 1..Len(q) : i < j /\ q[i] = x /\ q[j] = y

MapPut(f, k, v) == [x \in (DOMAIN f) \cup {k} |-> IF x = k THEN v ELSE f[x]]

MapErase(f, k) == [x \in (DOMAIN f) \ {k} |-> f[x]]

EmptyMap == <<>>

\* sum of key.size() + value.size() over the entries of a map
RECURSIVE ResidentBytes(_)
ResidentBytes(f) ==
    IF DOMAIN f = {} THEN 0
    ELSE LET k == CHOOSE x \in DOMAIN f : TRUE
         IN Len(k) + Len(f[k]) + ResidentBytes(MapErase(f, k))

----------------------------------------------------------------------------
(* SQLiteDB *)

\* put_to_db: INSERT OR REPLACE with both texts bound up to the first NUL
put_to_db(s, open, k, v) ==
    IF ~open THEN [ok |-> FALSE, store |-> s]
    ELSE [ok |-> TRUE, store |-> MapPut(s, CStr(k), CStr(v))]

\* get_from_db: SELECT value WHERE key = ?, key bound up to the first NUL
get_from_db(s, open, k) ==
    IF ~open THEN <<FALSE, EmptyStr>>
    ELSE IF CStr(k) \in DOMAIN s THEN <<TRUE, s[CStr(k)]>>
    ELSE <<FALSE, EmptyStr>>

\* variant of remove_from_db: sqlite3_changes(db) > 0 left out of the result
remove_from_db_NoChanges(s, open, k) ==
    IF ~open THEN [ok |-> FALSE, store |-> s]
    ELSE [ok |-> TRUE, store |-> MapErase(s, CStr(k))]

\* remove_from_db: DELETE WHERE key = ?; true iff a row was deleted.  There
\* is no db check: on a null handle sqlite3_prepare_v2 fails and false is
\* returned.
remove_from_db(s, open, k) ==
    IF ~open THEN [ok |-> FALSE, store |-> s]
    ELSE [ok |-> CStr(k) \in DOMAIN s, store |-> MapErase(s, CStr(k))]

----------------------------------------------------------------------------
(* FIFOCache: the aggregate guarded by cache_mutex *)

Size(k, v) == Len(k) + Len(v)

\* a > b on size_t, a given by its representative, 0 <= b < 2^63
UGt(a, b) == a < 0 \/ a > b

Agg == [cache |-> cache, queue |-> queue, current_size |-> current_size,
        evicted |-> <<>>]

\* variant of EvictLoop: pops the newest key (the back of the queue)
RECURSIVE EvictLoop_Newest(_, _)
EvictLoop_Newest(c, value_size) ==
    IF UGt(c.current_size + value_size, MAX_SIZE) /\ c.queue # <<>>
    THEN LET newest == c.queue[Len(c.queue)]
             popped == [c EXCEPT !.queue = SubSeq(@, 1, Len(@) - 1),
                                 !.evicted = Append(@, newest)]
         IN IF newest \in DOMAIN c.cache
            THEN EvictLoop_Newest([popped EXCEPT
                              !.current_size = @ - Size(newest, c.cache[newest]),
                              !.cache = MapErase(@, newest)], value_size)
            ELSE EvictLoop_Newest(popped, value_size)
    ELSE c

\* variant of EvictLoop: the loop condition lacks !queue.empty(); a further
\* iteration runs on the empty queue when the entry still does not fit
RECURSIVE EvictLoop_NoEmptyCheck(_, _)
EvictLoop_NoEmptyCheck(c, value_size) ==
    IF UGt(c.current_size + value_size, MAX_SIZE)
    THEN IF c.queue = <<>>
         THEN [c EXCEPT !.evicted = Append(@, EmptyStr)]
         ELSE LET oldest == Head(c.queue)
                  popped == [c EXCEPT !.queue = Tail(@),
                                      !.evicted = Append(@, oldest)]
              IN IF oldest \in DOMAIN c.cache
                 THEN EvictLoop_NoEmptyCheck(
                          [popped EXCEPT
                             !.current_size = @ - Size(oldest, c.cache[oldest]),
                             !.cache = MapErase(@, oldest)], value_size)
                 ELSE EvictLoop_NoEmptyCheck(popped, value_size)
    ELSE c

\* the while loop of insertToCache
RECURSIVE EvictLoop(_, _)
EvictLoop(c, value_size) ==
    IF UGt(c.current_size + value_size, MAX_SIZE) /\ c.queue # <<>>
    THEN LET oldest == Head(c.queue)
             popped == [c EXCEPT !.queue = Tail(@),
                                 !.evicted = Append(@, oldest)]
         IN IF oldest \in DOMAIN c.cache
            THEN EvictLoop([popped EXCEPT
                              !.current_size = @ - Size(oldest, c.cache[oldest]),
                              !.cache = MapErase(@, oldest)], value_size)
            ELSE EvictLoop(popped, value_size)
    ELSE c

\* variant of insertToCache: pushes the key without the find() check
insertToCache_AlwaysPush(c, k, v) ==
    LET value_size == Size(k, v) IN
    IF value_size > MAX_SIZE THEN c
    ELSE LET c1 == IF k \in DOMAIN c.cache
                   THEN [c EXCEPT !.current_size = @ - Size(k, c.cache[k])]
                   ELSE c
             c2 == EvictLoop(c1, value_size)
             c3 == [c2 EXCEPT !.queue = Append(@, k)]
         IN [c3 EXCEPT !.cache = MapPut(@, k, v),
                       !.current_size = @ + value_size]

\* variant of insertToCache: the oversize guard left out
insertToCache_NoGuard(c, k, v) ==
    LET value_size == Size(k, v)
        c1 == IF k \in DOMAIN c.cache
              THEN [c EXCEPT !.current_size = @ - Size(k, c.cache[k])]
              ELSE c
        c2 == EvictLoop(c1, value_size)
        c3 == IF k \notin DOMAIN c2.cache
              THEN [c2 EXCEPT !.queue = Append(@, k)]
              ELSE c2
    IN [c3 EXCEPT !.cache = MapPut(@, k, v),
                  !.current_size = @ + value_size]

\* variant of insertToCache: cache.insert({key, value}) in place of
\* cache[key] = value, which keeps the value of a key already present
insertToCache_NoOverwrite(c, k, v) ==
    LET value_size == Size(k, v) IN
    IF value_size > MAX_SIZE THEN c
    ELSE LET c1 == IF k \in DOMAIN c.cache
                   THEN [c EXCEPT !.current_size = @ - Size(k, c.cache[k])]
                   ELSE c
             c2 == EvictLoop(c1, value_size)
             c3 == IF k \notin DOMAIN c2.cache
                   THEN [c2 EXCEPT !.queue = Append(@, k)]
                   ELSE c2
         IN [c3 EXCEPT !.cache = IF k \in DOMAIN @ THEN @ ELSE MapPut(@, k, v),
                       !.current_size = @ + value_size]

insertToCache(c, k, v) ==
    LET value_size == Size(k, v) IN
    IF value_size > MAX_SIZE THEN c
    ELSE LET c1 == IF k \in DOMAIN c.cache
                   THEN [c EXCEPT !.current_size = @ - Size(k, c.cache[k])]
                   ELSE c
             c2 == EvictLoop(c1, value_size)
             c3 == IF k \notin DOMAIN c2.cache
                   THEN [c2 EXCEPT !.queue = Append(@, k)]
                   ELSE c2
         IN [c3 EXCEPT !.cache = MapPut(@, k, v),
                       !.current_size = @ + value_size]

\* variant of removeFromCache: cache.erase(it) left out
removeFromCache_NoErase(c, k) ==
    LET c1 == IF k \in DOMAIN c.cache
              THEN [c EXCEPT !.current_size = @ - Size(k, c.cache[k])]
              ELSE c
    IN [c1 EXCEPT !.queue = SelectSeq(@, LAMBDA elem : elem # k)]

\* variant of removeFromCache: the queue is not rebuilt, the key stays in it
removeFromCache_NoRebuild(c, k) ==
    IF k \in DOMAIN c.cache
    THEN [c EXCEPT !.current_size = @ - Size(k, c.cache[k]),
                   !.cache = MapErase(@, k)]
    ELSE c

\* variant of removeFromCache: the rebuild fills the removed key's place with
\* the last element of the queue instead of closing the gap
removeFromCache_SwapLast(c, k) ==
    LET c1 == IF k \in DOMAIN c.cache
              THEN [c EXCEPT !.current_size = @ - Size(k, c.cache[k]),
                             !.cache = MapErase(@, k)]
              ELSE c
        n == Len(c.queue)
        moved == [i \in 1..n |-> IF c.queue[i] = k THEN c.queue[n]
                                 ELSE IF i = n /\ k \in Range(c.queue) THEN k
                                 ELSE c.queue[i]]
    IN [c1 EXCEPT !.queue = SelectSeq(moved, LAMBDA elem : elem # k)]

\* the locked block of remove()
removeFromCache(c, k) ==
    LET c1 == IF k \in DOMAIN c.cache
              THEN [c EXCEPT !.current_size = @ - Size(k, c.cache[k]),
                             !.cache = MapErase(@, k)]
              ELSE c
    IN [c1 EXCEPT !.queue = SelectSeq(@, LAMBDA elem : elem # k)]

----------------------------------------------------------------------------
(* History *)

NoCall == [op |-> "none", key |-> EmptyStr, value |-> EmptyStr,
           ret |-> <<>>, hit |-> "none"]

Completed(op, k, v, r, h) ==
    /\ prev' = IF last.key = k THEN last ELSE NoCall
    /\ last' = [op |-> op, key |-> k, value |-> v, ret |-> r, hit |-> h]

Idle(t) ==
    /\ pc' = [pc EXCEPT ![t] = "idle"]
    /\ key' = [key EXCEPT ![t] = EmptyStr]
    /\ value' = [value EXCEPT ![t] = EmptyStr]
    /\ removed_from_db' = [removed_from_db EXCEPT ![t] = FALSE]
    /\ pre_store' = [pre_store EXCEPT ![t] = EmptyMap]

SetAgg(c) ==
    /\ cache' = c.cache
    /\ queue' = c.queue
    /\ current_size' = c.current_size
    /\ evicted' = c.evicted

----------------------------------------------------------------------------
(* Initial state: after FIFOCache() and SQLiteDB("cache.db").  sqlite3_open *)
(* may fail (db = nullptr); a cache.db left by an earlier process keeps its *)
(* rows (CREATE TABLE IF NOT EXISTS).                                       *)

InitStores == {EmptyMap, [k \in {KeyB} |-> Rep(65, 20)]}

InitCommon ==
    /\ cache = EmptyMap
    /\ queue = <<>>
    /\ current_size = 0
    /\ db_open \in BOOLEAN
    /\ store \in (IF db_open THEN InitStores ELSE {EmptyMap})
    /\ pc = [t \in Threads |-> "idle"]
    /\ key = [t \in Threads |-> EmptyStr]
    /\ value = [t \in Threads |-> EmptyStr]
    /\ removed_from_db = [t \in Threads |-> FALSE]
    /\ cache_mutex = [t \in Threads |-> "none"]
    /\ db_mutex = NoThread
    /\ pre_store = [t \in Threads |-> EmptyMap]
    /\ last = NoCall
    /\ prev = NoCall
    /\ written = EmptyMap
    /\ evicted = <<>>

Init == InitCommon /\ budget = MaxOps

InitSeq == InitCommon /\ budget = MaxOpsSeq

InitDrift == InitCommon /\ budget = MaxOpsDrift

----------------------------------------------------------------------------
(* get *)

\* variant of GetProbe: a cache hit moves the key to the back of the queue
GetProbe_Refresh(t, K) ==
    /\ pc[t] = "idle"
    /\ budget > 0
    /\ budget' = budget - 1
    /\ \E k \in K :
         IF k \in DOMAIN cache
         THEN /\ Completed("get", k, EmptyStr, <<k, cache[k]>>, "cache")
              /\ queue' = Append(SelectSeq(queue, LAMBDA elem : elem # k), k)
              /\ UNCHANGED <<pc, key, value>>
         ELSE /\ pc' = [pc EXCEPT ![t] = "get_db"]
              /\ key' = [key EXCEPT ![t] = k]
              /\ UNCHANGED <<value, last, prev, queue>>
    /\ UNCHANGED <<cache, current_size, store, db_open,
                   removed_from_db, pre_store, written, evicted>>
    /\ UNCHANGED <<cache_mutex, db_mutex>>

\* get(): the shared-lock block; a hit returns, a miss goes on to the store
GetProbe(t, K) ==
    /\ pc[t] = "idle"
    /\ budget > 0
    /\ budget' = budget - 1
    /\ \E k \in K :
         IF k \in DOMAIN cache
         THEN /\ Completed("get", k, EmptyStr, <<k, cache[k]>>, "cache")
              /\ UNCHANGED <<pc, key, value>>
         ELSE /\ pc' = [pc EXCEPT ![t] = "get_db"]
              /\ key' = [key EXCEPT ![t] = k]
              /\ UNCHANGED <<value, last, prev>>
    /\ UNCHANGED <<cache, queue, current_size, store, db_open,
                   removed_from_db, pre_store, written, evicted>>
    /\ UNCHANGED <<cache_mutex, db_mutex>>

\* get(): db.get_from_db(key)
GetFromDb(t) ==
    /\ pc[t] = "get_db"
    /\ LET value_opt == get_from_db(store, db_open, key[t]) IN
         IF value_opt[1]
         THEN /\ pc' = [pc EXCEPT ![t] = "get_insert"]
              /\ value' = [value EXCEPT ![t] = value_opt[2]]
              /\ UNCHANGED <<key, removed_from_db, pre_store, last, prev>>
         ELSE /\ Completed("get", key[t], EmptyStr, <<EmptyStr, EmptyStr>>, "miss")
              /\ Idle(t)
    /\ UNCHANGED <<cache, queue, current_size, store, db_open, written,
                   evicted, budget>>
    /\ UNCHANGED <<cache_mutex, db_mutex>>

\* variant of GetInsert: the value read from the store is returned without
\* the call of insertToCache
GetInsert_NoPromote(t) ==
    /\ pc[t] = "get_insert"
    /\ Completed("get", key[t], EmptyStr, <<key[t], value[t]>>, "store")
    /\ Idle(t)
    /\ UNCHANGED <<cache, queue, current_size, evicted, store, db_open,
                   written, budget>>
    /\ UNCHANGED <<cache_mutex, db_mutex>>

\* get(): insertToCache(key, value) after a store hit, then return
GetInsert(t) ==
    /\ pc[t] = "get_insert"
    /\ SetAgg(insertToCache(Agg, key[t], value[t]))
    /\ Completed("get", key[t], EmptyStr, <<key[t], value[t]>>, "store")
    /\ Idle(t)
    /\ UNCHANGED <<store, db_open, written, budget>>
    /\ UNCHANGED <<cache_mutex, db_mutex>>

----------------------------------------------------------------------------
(* put *)

\* put(): the empty-key check and db.put_to_db(key, value)
PutToDb(t, K, V) ==
    /\ pc[t] = "idle"
    /\ budget > 0
    /\ budget' = budget - 1
    /\ \E k \in K, v \in V :
         IF k = EmptyStr
         THEN /\ Completed("put", k, v, <<>>, "none")
              /\ UNCHANGED <<store, pc, key, value, written>>
         ELSE /\ store' = put_to_db(store, db_open, k, v).store
              /\ pc' = [pc EXCEPT ![t] = "put_insert"]
              /\ key' = [key EXCEPT ![t] = k]
              /\ value' = [value EXCEPT ![t] = v]
              /\ written' = MapPut(written, k, v)
              /\ UNCHANGED <<last, prev>>
    /\ UNCHANGED <<cache, queue, current_size, db_open, removed_from_db,
                   pre_store, evicted>>
    /\ UNCHANGED <<cache_mutex, db_mutex>>

\* put(): insertToCache(key, value), then return
PutInsert(t) ==
    /\ pc[t] = "put_insert"
    /\ SetAgg(insertToCache(Agg, key[t], value[t]))
    /\ Completed("put", key[t], value[t], <<>>, "none")
    /\ Idle(t)
    /\ UNCHANGED <<store, db_open, written, budget>>
    /\ UNCHANGED <<cache_mutex, db_mutex>>

----------------------------------------------------------------------------
(* remove *)

\* remove(): db.remove_from_db(key)
RemoveFromDb(t, K) ==
    /\ pc[t] = "idle"
    /\ budget > 0
    /\ budget' = budget - 1
    /\ \E k \in K :
         LET r == remove_from_db(store, db_open, k) IN
         /\ store' = r.store
         /\ removed_from_db' = [removed_from_db EXCEPT ![t] = r.ok]
         /\ pre_store' = [pre_store EXCEPT ![t] = store]
         /\ pc' = [pc EXCEPT ![t] = "rm_cache"]
         /\ key' = [key EXCEPT ![t] = k]
         /\ written' = MapErase(written, k)
    /\ UNCHANGED <<cache, queue, current_size, db_open, value, last, prev,
                   evicted>>
    /\ UNCHANGED <<cache_mutex, db_mutex>>

\* remove(): the exclusive-lock block, then return
RemoveFromCache(t) ==
    /\ pc[t] = "rm_cache"
    /\ SetAgg(removeFromCache(Agg, key[t]))
    /\ Completed("remove", key[t], EmptyStr,
                 <<removed_from_db[t] \/ key[t] \in DOMAIN cache>>,
                 IF key[t] \in DOMAIN cache THEN "cache"
                 ELSE IF CStr(key[t]) \in DOMAIN pre_store[t] THEN "store"
                 ELSE "miss")
    /\ Idle(t)
    /\ UNCHANGED <<store, db_open, written, budget>>
    /\ UNCHANGED <<cache_mutex, db_mutex>>

----------------------------------------------------------------------------
(* Specifications *)

Step(t, K, V) ==
    \/ GetProbe(t, K)
    \/ GetFromDb(t)
    \/ GetInsert(t)
    \/ PutToDb(t, K, V)
    \/ PutInsert(t)
    \/ RemoveFromDb(t, K)
    \/ RemoveFromCache(t)

\* any interleaving of the threads' calls
Next == \E t \in Threads : Step(t, ConcKeys, ConcValues)

Spec == Init /\ [][Next]_vars

\* one thread: calls run one after the other
NextSeq == Step(1, Keys, Values)

SpecSeq == InitSeq /\ [][NextSeq]_vars

\* one thread, fewer inputs, longer runs
NextDrift == Step(1, DriftKeys, DriftValues)

SpecDrift == InitDrift /\ [][NextDrift]_vars

\* no call is in progress
AllIdle == \A t \in Threads : pc[t] = "idle"

\* Disjoint concurrent puts: every thread puts its own key once, the threads
\* interleaving; once all puts have returned, thread 1 reads the keys back.
PutKey(t) == IF t = 1 THEN KeyA ELSE KeyB
PutKeys == {PutKey(t) : t \in Threads}
InitPuts == InitCommon /\ budget = MaxOpsPuts
NextPuts ==
    \/ \E t \in Threads :
         PutKey(t) \notin DOMAIN written /\ PutToDb(t, {PutKey(t)}, Values)
    \/ \E t \in Threads : PutInsert(t)
    \/ /\ AllIdle
       /\ PutKeys \subseteq DOMAIN written
       /\ GetProbe(1, PutKeys)
    \/ GetFromDb(1)
    \/ GetInsert(1)
SpecPuts == InitPuts /\ [][NextPuts]_vars

\* the calls completed so far include one of the operations ops (the last
\* two completed calls are on record while they are on the same key)
HasCompleted(ops) == last.op \in ops \/ prev.op \in ops

\* A get racing a writer: the store is open and holds a row for KeyB, which
\* is not cached.  Thread 1 calls get(KeyB) once while thread 2 calls
\* put(KeyB, v) or remove(KeyB) once, in any interleaving; when both have
\* returned, thread 1 calls get(KeyB) again.
InitRace == InitCommon /\ db_open /\ store # EmptyMap /\ budget = MaxOpsRace
NextRace ==
    \/ /\ budget >= 2
       /\ ~HasCompleted({"get"})
       /\ GetProbe(1, {KeyB})
    \/ GetFromDb(1)
    \/ GetInsert(1)
    \/ /\ budget >= 2
       /\ ~HasCompleted({"put", "remove"})
       /\ PutToDb(2, {KeyB}, RaceValues)
    \/ /\ budget >= 2
       /\ ~HasCompleted({"put", "remove"})
       /\ RemoveFromDb(2, {KeyB})
    \/ PutInsert(2)
    \/ RemoveFromCache(2)
    \/ /\ budget = 1
       /\ AllIdle
       /\ GetProbe(1, {KeyB})
SpecRace == InitRace /\ [][NextRace]_vars

\* Writers of one key at once: with the store open, both threads call put
\* and remove on the one key KeyB, with entries that fit the cache, in any
\* interleaving of their locked blocks.
InitWriters == InitCommon /\ db_open /\ budget = MaxOpsWriters
NextWriters ==
    \/ \E t \in Threads : PutToDb(t, {KeyB}, RaceValues)
    \/ \E t \in Threads : PutInsert(t)
    \/ \E t \in Threads : RemoveFromDb(t, {KeyB})
    \/ \E t \in Threads : RemoveFromCache(t)
SpecWriters == InitWriters /\ [][NextWriters]_vars

\* Two gets of one key at once: thread 1 first runs calls one after the
\* other; then, all but two calls spent, both threads call get(k) for one
\* key k that has a row in the store and no entry in the cache index, in
\* any interleaving and with nothing else running.
InitTwoGets == InitCommon /\ budget = MaxOpsTwoGets
NextTwoGets ==
    \/ budget > 2 /\ GetProbe(1, DriftKeys)
    \/ budget > 2 /\ PutToDb(1, DriftKeys, DriftValues)
    \/ budget > 2 /\ RemoveFromDb(1, DriftKeys)
    \/ PutInsert(1)
    \/ RemoveFromCache(1)
    \/ \E t \in Threads : GetFromDb(t)
    \/ \E t \in Threads : GetInsert(t)
    \/ /\ budget = 2
       /\ AllIdle
       /\ \E k \in DriftKeys :
            /\ k \notin DOMAIN cache
            /\ CStr(k) \in DOMAIN store
            /\ GetProbe(1, {k})
    \/ /\ budget = 1
       /\ GetProbe(2, {IF pc[1] = "idle" THEN last.key ELSE key[1]})
SpecTwoGets == InitTwoGets /\ [][NextTwoGets]_vars

\* Concurrent gets of keys put before: thread 1 puts distinct non-empty keys
\* into the fresh cache, one call after the other; with GetCalls calls left
\* and the last put returned, both threads call get on the keys put, in any
\* interleaving.
InitGets == InitCommon /\ budget = MaxOpsGets
NextGets ==
    \/ /\ budget > GetCalls
       /\ \E k \in (Keys \ {EmptyStr}) \ DOMAIN written :
            PutToDb(1, {k}, Values)
    \/ PutInsert(1)
    \/ \E t \in Threads :
         /\ budget <= GetCalls
         /\ pc[1] # "put_insert"
         /\ GetProbe(t, DOMAIN written)
    \/ \E t \in Threads : GetFromDb(t)
    \/ \E t \in Threads : GetInsert(t)
SpecGets == InitGets /\ [][NextGets]_vars

\* the entries put fit in the cache together
FitTogether == ResidentBytes(written) <= MAX_SIZE

----------------------------------------------------------------------------
(* Locks: the same calls with the acquisition of cache_mutex and db_mutex  *)
(* as steps of their own.  A lock is released in the step that runs the    *)
(* block it guards (std::shared_lock, std::unique_lock and std::lock_guard *)
(* release at the end of their scope).                                     *)

WaitsDb == {"get_dblock", "put_dblock", "rm_dblock"}
InDb == {"get_dbop", "put_dbop", "rm_dbop"}
WaitsExclusive == {"get_wlock", "put_wlock", "rm_wlock"}

Unlock(t) == cache_mutex' = [cache_mutex EXCEPT ![t] = "none"]

\* get(), put(), remove() are entered
StartGet(t, K) ==
    /\ pc[t] = "idle"
    /\ budget > 0
    /\ budget' = budget - 1
    /\ \E k \in K : key' = [key EXCEPT ![t] = k]
    /\ pc' = [pc EXCEPT ![t] = "get_rlock"]
    /\ UNCHANGED <<cache, queue, current_size, store, db_open, value,
                   removed_from_db, cache_mutex, db_mutex, pre_store, last,
                   prev, written, evicted>>

StartPut(t, K, V) ==
    /\ pc[t] = "idle"
    /\ budget > 0
    /\ budget' = budget - 1
    /\ \E k \in K, v \in V :
         IF k = EmptyStr
         THEN /\ Completed("put", k, v, <<>>, "none")
              /\ UNCHANGED <<pc, key, value>>
         ELSE /\ pc' = [pc EXCEPT ![t] = "put_dblock"]
              /\ key' = [key EXCEPT ![t] = k]
              /\ value' = [value EXCEPT ![t] = v]
              /\ UNCHANGED <<last, prev>>
    /\ UNCHANGED <<cache, queue, current_size, store, db_open,
                   removed_from_db, cache_mutex, db_mutex, pre_store,
                   written, evicted>>

StartRemove(t, K) ==
    /\ pc[t] = "idle"
    /\ budget > 0
    /\ budget' = budget - 1
    /\ \E k \in K : key' = [key EXCEPT ![t] = k]
    /\ pc' = [pc EXCEPT ![t] = "rm_dblock"]
    /\ UNCHANGED <<cache, queue, current_size, store, db_open, value,
                   removed_from_db, cache_mutex, db_mutex, pre_store, last,
                   prev, written, evicted>>

\* std::shared_lock(cache_mutex): granted while no thread holds it exclusively
LockShared(t) ==
    /\ pc[t] = "get_rlock"
    /\ \A u \in Threads : cache_mutex[u] # "exclusive"
    /\ cache_mutex' = [cache_mutex EXCEPT ![t] = "shared"]
    /\ pc' = [pc EXCEPT ![t] = "get_probe"]
    /\ UNCHANGED <<cache, queue, current_size, store, db_open, key, value,
                   removed_from_db, db_mutex, pre_store, last, prev,
                   written, evicted, budget>>

\* variant of ProbeUnlock: the shared lock lives on after a miss
ProbeUnlock_NoScope(t) ==
    /\ pc[t] = "get_probe"
    /\ IF key[t] \in DOMAIN cache
       THEN /\ Completed("get", key[t], EmptyStr,
                         <<key[t], cache[key[t]]>>, "cache")
            /\ Idle(t)
            /\ Unlock(t)
       ELSE /\ pc' = [pc EXCEPT ![t] = "get_dblock"]
            /\ UNCHANGED <<key, value, removed_from_db, pre_store, last,
                           prev, cache_mutex>>
    /\ UNCHANGED <<cache, queue, current_size, store, db_open, db_mutex,
                   written, evicted, budget>>

\* get(): the block under the shared lock, which ends with the block
ProbeUnlock(t) ==
    /\ pc[t] = "get_probe"
    /\ IF key[t] \in DOMAIN cache
       THEN /\ Completed("get", key[t], EmptyStr,
                         <<key[t], cache[key[t]]>>, "cache")
            /\ Idle(t)
       ELSE /\ pc' = [pc EXCEPT ![t] = "get_dblock"]
            /\ UNCHANGED <<key, value, removed_from_db, pre_store, last,
                           prev>>
    /\ Unlock(t)
    /\ UNCHANGED <<cache, queue, current_size, store, db_open, db_mutex,
                   written, evicted, budget>>

\* std::lock_guard(db_mutex), first statement of every SQLiteDB operation
LockDb(t) ==
    /\ pc[t] \in WaitsDb
    /\ db_mutex = NoThread
    /\ db_mutex' = t
    /\ pc' = [pc EXCEPT ![t] = IF pc[t] = "get_dblock" THEN "get_dbop"
                                ELSE IF pc[t] = "put_dblock" THEN "put_dbop"
                                ELSE "rm_dbop"]
    /\ UNCHANGED <<cache, queue, current_size, store, db_open, key, value,
                   removed_from_db, cache_mutex, pre_store, last, prev,
                   written, evicted, budget>>

\* variant of DbGet: db_mutex stays locked when no row was found
DbGet_KeepLock(t) ==
    /\ pc[t] = "get_dbop"
    /\ LET value_opt == get_from_db(store, db_open, key[t]) IN
         IF value_opt[1]
         THEN /\ pc' = [pc EXCEPT ![t] = "get_wlock"]
              /\ value' = [value EXCEPT ![t] = value_opt[2]]
              /\ db_mutex' = NoThread
              /\ UNCHANGED <<key, removed_from_db, pre_store, last, prev>>
         ELSE /\ Completed("get", key[t], EmptyStr,
                           <<EmptyStr, EmptyStr>>, "miss")
              /\ Idle(t)
              /\ UNCHANGED db_mutex
    /\ UNCHANGED <<cache, queue, current_size, store, db_open, cache_mutex,
                   written, evicted, budget>>

\* get_from_db under db_mutex
DbGet(t) ==
    /\ pc[t] = "get_dbop"
    /\ LET value_opt == get_from_db(store, db_open, key[t]) IN
         IF value_opt[1]
         THEN /\ pc' = [pc EXCEPT ![t] = "get_wlock"]
              /\ value' = [value EXCEPT ![t] = value_opt[2]]
              /\ UNCHANGED <<key, removed_from_db, pre_store, last, prev>>
         ELSE /\ Completed("get", key[t], EmptyStr,
                           <<EmptyStr, EmptyStr>>, "miss")
              /\ Idle(t)
    /\ db_mutex' = NoThread
    /\ UNCHANGED <<cache, queue, current_size, store, db_open, cache_mutex,
                   written, evicted, budget>>

\* put_to_db under db_mutex; put() ignores the result
DbPut(t) ==
    /\ pc[t] = "put_dbop"
    /\ store' = put_to_db(store, db_open, key[t], value[t]).store
    /\ written' = MapPut(written, key[t], value[t])
    /\ db_mutex' = NoThread
    /\ pc' = [pc EXCEPT ![t] = "put_wlock"]
    /\ UNCHANGED <<cache, queue, current_size, db_open, key, value,
                   removed_from_db, cache_mutex, pre_store, last, prev,
                   evicted, budget>>

\* remove_from_db under db_mutex
DbRemove(t) ==
    /\ pc[t] = "rm_dbop"
    /\ LET r == remove_from_db(store, db_open, key[t]) IN
         /\ store' = r.store
         /\ removed_from_db' = [removed_from_db EXCEPT ![t] = r.ok]
    /\ pre_store' = [pre_store EXCEPT ![t] = store]
    /\ written' = MapErase(written, key[t])
    /\ db_mutex' = NoThread
    /\ pc' = [pc EXCEPT ![t] = "rm_wlock"]
    /\ UNCHANGED <<cache, queue, current_size, db_open, key, value,
                   cache_mutex, last, prev, evicted, budget>>

\* std::unique_lock(cache_mutex): granted while no thread holds it at all
LockExclusive(t) ==
    /\ pc[t] \in WaitsExclusive
    /\ \A u \in Threads : cache_mutex[u] = "none"
    /\ cache_mutex' = [cache_mutex EXCEPT ![t] = "exclusive"]
    /\ pc' = [pc EXCEPT ![t] = IF pc[t] = "get_wlock" THEN "get_ins"
                                ELSE IF pc[t] = "put_wlock" THEN "put_ins"
                                ELSE "rm_erase"]
    /\ UNCHANGED <<cache, queue, current_size, store, db_open, key, value,
                   removed_from_db, db_mutex, pre_store, last, prev,
                   written, evicted, budget>>

\* insertToCache under the exclusive lock, then get() or put() returns
InsertUnlock(t) ==
    /\ pc[t] \in {"get_ins", "put_ins"}
    /\ SetAgg(insertToCache(Agg, key[t], value[t]))
    /\ IF pc[t] = "get_ins"
       THEN Completed("get", key[t], EmptyStr, <<key[t], value[t]>>, "store")
       ELSE Completed("put", key[t], value[t], <<>>, "none")
    /\ Idle(t)
    /\ Unlock(t)
    /\ UNCHANGED <<store, db_open, db_mutex, written, budget>>

\* remove(): the block under the exclusive lock, then return
EraseUnlock(t) ==
    /\ pc[t] = "rm_erase"
    /\ SetAgg(removeFromCache(Agg, key[t]))
    /\ Completed("remove", key[t], EmptyStr,
                 <<removed_from_db[t] \/ key[t] \in DOMAIN cache>>,
                 IF key[t] \in DOMAIN cache THEN "cache"
                 ELSE IF CStr(key[t]) \in DOMAIN pre_store[t] THEN "store"
                 ELSE "miss")
    /\ Idle(t)
    /\ Unlock(t)
    /\ UNCHANGED <<store, db_open, db_mutex, written, budget>>

\* the steps of a call that has been entered
Progress(t) ==
    \/ LockShared(t)
    \/ ProbeUnlock(t)
    \/ LockDb(t)
    \/ DbGet(t)
    \/ DbPut(t)
    \/ DbRemove(t)
    \/ LockExclusive(t)
    \/ InsertUnlock(t)
    \/ EraseUnlock(t)

InitLocks == InitCommon /\ budget = MaxOpsLocks
NextLocks ==
    \E t \in Threads :
      \/ StartGet(t, LockKeys)
      \/ StartPut(t, LockKeys, LockValues)
      \/ StartRemove(t, LockKeys)
      \/ Progress(t)
SpecLocks == InitLocks /\ [][NextLocks]_vars

\* the scheduler lets every thread that can take a step take one in the end;
\* a thread is not obliged to enter a further call
SpecLocksFair == SpecLocks /\ \A t \in Threads : WF_vars(Progress(t))

----------------------------------------------------------------------------
(* Properties *)

\* what a call returns when nothing was stored, found or removed
NormalRet(op) ==
    IF op = "get" THEN <<EmptyStr, EmptyStr>>
    ELSE IF op = "remove" THEN <<FALSE>>
    ELSE <<>>

\* the last completed call went to the store
UsedStore ==
    \/ last.op = "put" /\ last.key # EmptyStr
    \/ last.op = "get" /\ last.hit # "cache"
    \/ last.op = "remove"

\* the bytes resident once the first j keys of the queue and the key k
\* itself are taken out of the cache index
BytesWithout(j, k) ==
    LET gone == {queue[i] : i \in 1..j} \cup {k}
    IN ResidentBytes([x \in DOMAIN cache \ gone |-> cache[x]])

\* a step in which thread t runs insertToCache
InsertStep(t) == pc[t] \in {"put_insert", "get_insert"} /\ pc'[t] = "idle"

\* C1: in every reachable state of every interleaving (each locked block is
\* one step, so no state has the exclusive lock held), current_size equals
\* the sum of len(key) + len(value) over the entries of the cache index.
C1_SizeMatchesIndex == current_size = ResidentBytes(cache)

\* C2: between operations, the bytes resident in the cache index (sum of
\* len(key) + len(value) over its entries) are at most MAX_SIZE.
C2_ResidentWithinMax == AllIdle => ResidentBytes(cache) <= MAX_SIZE

\* C3: in every reachable state of every interleaving, the FIFO queue holds
\* no key twice and its set of keys is the set of keys of the cache index.
C3_QueueMatchesIndex == NoDup(queue) /\ Range(queue) = DOMAIN cache

\* C3 witness: a remove has returned true, a key is queued, and a thread
\* stands between its store write and its insert of a key already cached.
C3_Witness ==
    /\ Len(queue) >= 1
    /\ last.op = "remove" /\ last.ret = <<TRUE>>
    /\ \E t \in Threads : pc[t] = "put_insert" /\ key[t] \in DOMAIN cache

\* C4: one thread; a put(k, v) with k non-empty and len(k) + len(v) <=
\* MAX_SIZE, directly followed by get(k), makes that get return (k, v).
C4_PutThenGet ==
    (/\ last.op = "get" /\ prev.op = "put" /\ prev.key = last.key
     /\ prev.key # EmptyStr
     /\ Size(prev.key, prev.value) <= MAX_SIZE)
    => last.ret = <<prev.key, prev.value>>

\* C4 witness: a get has returned right after a put of its key, and the
\* value put holds a NUL byte (kept by the cache, cut by the store).
C4_Witness ==
    /\ last.op = "get" /\ prev.op = "put" /\ prev.key = last.key
    /\ prev.value = ValNul
    /\ last.ret = <<KeyA, ValNul>>

\* C5: one thread, store open; a key that was put with a fitting entry, is
\* no longer in the cache (evicted) and was neither removed nor put again
\* since, is returned by get(k) with the value last put.
C5_EvictedServedFromStore ==
    (/\ db_open /\ AllIdle
     /\ last.op = "get" /\ last.hit \in {"store", "miss"}
     /\ last.key \in DOMAIN written
     /\ Size(last.key, written[last.key]) <= MAX_SIZE)
    => last.ret = <<last.key, written[last.key]>>

\* C6: the keys an insert evicts are a prefix of the FIFO queue as it stood
\* before the insert: every key behind that prefix is still in the cache
\* after the insert and still queued in the same order, and every key of
\* the prefix other than the inserted key is gone from the cache.
C6_EvictsFifoPrefix ==
    [][\A t \in Threads : InsertStep(t) =>
         LET n == Len(evicted') IN
         /\ n <= Len(queue)
         /\ evicted' = SubSeq(queue, 1, n)
         /\ \A i \in (n + 1)..Len(queue) :
                queue[i] \in DOMAIN cache' /\ queue'[i - n] = queue[i]
         /\ \A i \in 1..n :
                queue[i] # key[t] => queue[i] \notin DOMAIN cache']_vars

\* C6 witness: an insert has evicted a key, which is gone from the cache,
\* and has left a key that was queued behind it in front of the new one.
C6_Witness ==
    /\ Len(evicted) >= 1
    /\ Len(queue) >= 2
    /\ \A i \in 1..Len(evicted) : evicted[i] \notin DOMAIN cache

\* C7: an insert of a key that is already in the cache index (new size <=
\* MAX_SIZE) leaves the key's FIFO position relative to every other key that
\* stays resident as it was.
C7_UpdateKeepsPosition ==
    [][\A t \in Threads :
         (/\ InsertStep(t)
          /\ key[t] \in DOMAIN cache
          /\ Size(key[t], value[t]) <= MAX_SIZE)
         => \A x \in (DOMAIN cache \cap DOMAIN cache') \ {key[t]} :
               Before(queue, key[t], x) <=> Before(queue', key[t], x)]_vars

\* C8: one thread; when a stands before b in the FIFO queue, both resident,
\* a put of a with a value of the same length leaves b resident and a
\* before b in the queue.
C8_SameSizeRePutKeepsOrder ==
    [][\A t \in Threads :
         (/\ pc[t] = "put_insert" /\ pc'[t] = "idle"
          /\ key[t] \in DOMAIN cache
          /\ Len(value[t]) = Len(cache[key[t]]))
         => \A b \in DOMAIN cache :
               Before(queue, key[t], b) =>
                   b \in DOMAIN cache' /\ Before(queue', key[t], b)]_vars

\* C9: one thread, store open; after put(k, v) with k non-empty and
\* len(k) + len(v) > MAX_SIZE the cache index holds no entry for k, and a
\* get(k) that follows directly returns (k, v).
C9_OversizedPut ==
    /\ (/\ db_open /\ AllIdle
        /\ last.op = "put" /\ last.key # EmptyStr
        /\ Size(last.key, last.value) > MAX_SIZE)
       => last.key \notin DOMAIN cache
    /\ (/\ db_open
        /\ last.op = "get" /\ prev.op = "put" /\ prev.key = last.key
        /\ prev.key # EmptyStr
        /\ Size(prev.key, prev.value) > MAX_SIZE)
       => last.ret = <<prev.key, prev.value>>

\* C10: one thread; after remove(k) the key is in neither the cache index
\* nor the FIFO queue nor (as the store sees it) the store, and a get(k)
\* that follows directly returns ("", "").
C10_RemoveThenGet ==
    /\ (AllIdle /\ last.op = "remove")
       => /\ last.key \notin DOMAIN cache
          /\ last.key \notin Range(queue)
          /\ CStr(last.key) \notin DOMAIN store
    /\ (last.op = "get" /\ prev.op = "remove" /\ prev.key = last.key)
       => last.ret = <<EmptyStr, EmptyStr>>

\* C10 witness: a get has returned right after a remove of its key that
\* had found the key (remove returned true).
C10_Witness ==
    /\ last.op = "get" /\ prev.op = "remove" /\ prev.key = last.key
    /\ prev.ret = <<TRUE>>
    /\ last.key # EmptyStr

\* C11: one thread; remove(k) returns true exactly when k had a row in the
\* store or an entry in the cache index when the call began, and a remove
\* that returns false leaves the store, the cache index, the FIFO queue and
\* current_size as the call found them.
C11_RemoveResult ==
    [][(pc[1] = "rm_cache" /\ pc'[1] = "idle") =>
         LET k == key[1]
             present == CStr(k) \in DOMAIN pre_store[1] \/ k \in DOMAIN cache
         IN /\ last'.op = "remove" /\ last'.key = k
            /\ last'.ret = <<present>>
            /\ ~present => /\ store' = pre_store[1]
                            /\ cache' = cache
                            /\ queue' = queue
                            /\ current_size' = current_size]_vars

\* C11 witness: a remove has returned true for a key that had a row in the
\* store and no entry in the cache index, while another key is resident.
C11_Witness ==
    /\ last.op = "remove" /\ last.ret = <<TRUE>> /\ last.hit = "store"
    /\ last.key # EmptyStr /\ queue # <<>>
    /\ last.key \notin DOMAIN cache /\ CStr(last.key) \notin DOMAIN store

\* C12: store open; the threads put pairwise disjoint non-empty keys
\* concurrently, each key once, and nothing is removed; once every put has
\* returned, get(k) returns (k, v) for the value v that was put for k.
C12_DisjointPutsReadBack ==
    (db_open /\ AllIdle /\ last.op = "get" /\ last.key \in DOMAIN written)
    => last.ret = <<last.key, written[last.key]>>

\* C13: get(k) runs concurrently with a put(k, v) or a remove(k) of another
\* thread, in any interleaving; once both have returned, a later get(k)
\* returns what the store holds for k: (k, the stored value), or ("", "")
\* when the store has no row for k.
C13_GetAfterRace ==
    (budget = 0 /\ AllIdle /\ last.op = "get")
    => last.ret = IF CStr(last.key) \in DOMAIN store
                  THEN <<last.key, store[CStr(last.key)]>>
                  ELSE <<EmptyStr, EmptyStr>>

\* C14: two threads call get(k) at once for a key k that has a row in the
\* store and no entry in the cache index, nothing else running.  Both calls
\* return the stored value, and the promotion that comes second finds what
\* the first one left and leaves the cache index, the FIFO queue and
\* current_size as they are: the final state is that of a single get(k).
C14_TwoGetsAsOne ==
    [][\A t \in Threads :
         (budget <= 1 /\ pc[t] = "get_insert" /\ pc'[t] = "idle") =>
           /\ last'.ret = <<key[t], store[CStr(key[t])]>>
           /\ key[t] \in DOMAIN cache =>
                 /\ cache' = cache
                 /\ queue' = queue
                 /\ current_size' = current_size]_vars

\* C15: one thread; when the store write of put(k, v) fails (the store did
\* not open), the call leaves no entry for k in the cache index.
C15_NoCacheOnStoreFailure ==
    (~db_open /\ AllIdle /\ last.op = "put") => last.key \notin DOMAIN cache

\* C16: one thread; a call whose store operation fails (the store did not
\* open) returns something else than a put that stored, a get that found
\* nothing or a remove that removed nothing returns.
C16_StoreFailureSurfaced ==
    (~db_open /\ AllIdle /\ UsedStore) => last.ret # NormalRet(last.op)

\* C17: one thread; put("", v) leaves the store, the cache index, the FIFO
\* queue and current_size unchanged; a get("") that follows it returns
\* ("", ""); put(k, "") with k non-empty stores (store open) and caches the
\* empty value.
C17_EmptyKeyEmptyValue ==
    [][/\ (/\ pc[1] = "idle" /\ pc'[1] = "idle" /\ budget' = budget - 1
           /\ last'.op = "put" /\ last'.key = EmptyStr)
          => UNCHANGED <<store, cache, queue, current_size>>
       /\ (/\ last.op = "put" /\ last.key = EmptyStr
           /\ budget' = budget
           /\ last'.op = "get" /\ last'.key = EmptyStr)
          => last'.ret = <<EmptyStr, EmptyStr>>
       /\ (/\ pc[1] = "put_insert" /\ pc'[1] = "idle"
           /\ key[1] # EmptyStr /\ value[1] = EmptyStr)
          => /\ key[1] \in DOMAIN cache' /\ cache'[key[1]] = EmptyStr
             /\ db_open => /\ CStr(key[1]) \in DOMAIN store'
                            /\ store'[CStr(key[1])] = EmptyStr]_vars

\* C18: one thread; get(k) returns a pair with first component k, other
\* than ("", ""), when k was found in the cache index or in the store, and
\* ("", "") when it was found in neither.
C18_NotFoundDistinct ==
    last.op = "get" =>
      IF last.hit \in {"cache", "store"}
      THEN last.ret[1] = last.key /\ last.ret # <<EmptyStr, EmptyStr>>
      ELSE last.ret = <<EmptyStr, EmptyStr>>

C20_HitChangesNothing ==
    [][(/\ budget' = budget - 1 /\ pc' = pc
        /\ last'.op = "get" /\ last'.hit = "cache")
       => /\ last'.key \in DOMAIN cache
          /\ last'.ret = <<last'.key, cache[last'.key]>>
          /\ UNCHANGED <<cache, queue, current_size, store>>]_vars

\* C20 witness: a get has been served from the cache for the oldest of at
\* least two resident keys, which is still at the front of the queue.
C20_Witness ==
    /\ last.op = "get" /\ last.hit = "cache"
    /\ Len(queue) >= 2 /\ queue[1] = last.key

\* C21: keys whose entries fit in the cache together have been put, and
\* the threads then call only get on those keys, in any interleaving: every
\* get is served from the cache in one step, returns (k, the value put for
\* k), and the cache index, the FIFO queue and current_size never change.
C21_ConcurrentGets ==
    [][(budget <= GetCalls /\ pc[1] # "put_insert" /\ FitTogether)
       => /\ pc' = pc
          /\ last'.op = "get" /\ last'.hit = "cache"
          /\ last'.ret = <<last'.key, written[last'.key]>>
          /\ UNCHANGED <<cache, queue, current_size>>]_vars

\* C21 witness: two keys that fit together have been put and all the gets
\* have returned, the last one served from the cache.
C21_Witness ==
    /\ budget = 0 /\ AllIdle /\ FitTogether
    /\ Len(queue) = 2
    /\ last.op = "get" /\ last.hit = "cache"

\* C22: in every reachable state of every interleaving, a thread that waits
\* for db_mutex or runs a store operation holds cache_mutex in no mode, and
\* no thread holds cache_mutex and db_mutex at the same time.
C22_NoStoreUnderCacheLock ==
    \A t \in Threads :
      /\ pc[t] \in WaitsDb \cup InDb => cache_mutex[t] = "none"
      /\ db_mutex = t => cache_mutex[t] = "none"

\* C22 witness: one thread runs a store operation under db_mutex while the
\* other holds cache_mutex exclusively.
C22_Witness ==
    \E t, u \in Threads :
      /\ t # u
      /\ db_mutex = t /\ pc[t] \in InDb
      /\ cache_mutex[u] = "exclusive"

\* C23: under fair scheduling every get, put and remove that a thread has
\* entered returns in the end, whatever the other thread does; in
\* particular no state is reached in which threads wait for cache_mutex and
\* db_mutex for ever.
C23_EveryCallReturns ==
    \A t \in Threads : (pc[t] # "idle") ~> (pc[t] = "idle")

\* C23 witness: a thread waits for the exclusive lock while the other
\* thread holds cache_mutex.
C23_Witness ==
    \E t, u \in Threads :
      /\ t # u
      /\ pc[t] \in WaitsExclusive
      /\ cache_mutex[u] # "none"

\* C24: every call of insertToCache runs its eviction loop for at most as
\* many iterations as the FIFO queue had elements when the call took the
\* lock (one pop per iteration), whatever the counter and the sizes are.
C24_EvictionBounded ==
    [][\A t \in Threads : InsertStep(t) =>
         /\ Len(evicted') <= Len(queue)
         /\ Len(queue') - Len(queue) + Len(evicted') \in {0, 1}]_vars

\* C24 witness: an insert has emptied a queue of at least two keys and the
\* counter stands outside 0..MAX_SIZE, where the entry never fits.
C24_Witness ==
    /\ Len(evicted) >= 2
    /\ Len(queue) = 1
    /\ current_size < 0

\* C25: one thread; an insert with len(key) + len(value) > MAX_SIZE leaves
\* the cache index, the FIFO queue and current_size exactly as they were
\* (nothing is evicted, an entry cached under the key stays as it was), and
\* when the insert is that of a put the row written to the open store is
\* there.
C25_OversizeLeavesCache ==
    [][\A t \in Threads :
         (InsertStep(t) /\ Size(key[t], value[t]) > MAX_SIZE) =>
           /\ UNCHANGED <<cache, queue, current_size>>
           /\ evicted' = <<>>
           /\ (pc[t] = "put_insert" /\ db_open) =>
                 /\ CStr(key[t]) \in DOMAIN store'
                 /\ store'[CStr(key[t])] = CStr(value[t])]_vars

\* C25 witness: an oversized put has returned; the store has its row and the
\* cache still holds the entry cached under the key before.
C25_Witness ==
    /\ AllIdle /\ db_open
    /\ last.op = "put" /\ Size(last.key, last.value) > MAX_SIZE
    /\ last.key \in DOMAIN cache /\ cache[last.key] # last.value
    /\ CStr(last.key) \in DOMAIN store
    /\ store[CStr(last.key)] = last.value

\* C26: one thread; only the store call of a put or a remove changes the
\* store (get, promotion, insert and eviction leave it as it is); put(k, v)
\* changes no row but that of key k; a row leaves the store only in a
\* remove called on its key.
C26_StoreChangedOnlyAtKey ==
    [][/\ store' # store =>
            pc[1] = "idle" /\ pc'[1] \in {"put_insert", "rm_cache"}
       /\ (pc[1] = "idle" /\ pc'[1] = "put_insert") =>
            \A x \in (DOMAIN store \cup DOMAIN store') \ {key'[1]} :
               /\ x \in DOMAIN store /\ x \in DOMAIN store'
               /\ store'[x] = store[x]
       /\ \A x \in DOMAIN store \ DOMAIN store' :
            pc'[1] = "rm_cache" /\ key'[1] = x]_vars

\* C27: an insert (entry not oversized) evicts nothing when current_size +
\* size <= MAX_SIZE holds on entry; otherwise the keys it evicts are the
\* shortest prefix of the FIFO queue whose removal lets the new entry fit
\* beside the bytes that stay resident, or the whole queue.
C27_EvictsShortestPrefix ==
    [][\A t \in Threads :
         (InsertStep(t) /\ Size(key[t], value[t]) <= MAX_SIZE) =>
           LET size == Size(key[t], value[t])
               n == Len(evicted')
               Fits(j) == BytesWithout(j, key[t]) + size <= MAX_SIZE
           IN /\ (current_size >= 0 /\ current_size + size <= MAX_SIZE)
                   => n = 0
              /\ n <= Len(queue)
              /\ n = Len(queue) \/ Fits(n)
              /\ \A j \in 0..(n - 1) : ~Fits(j)]_vars

\* C28: with the store open and entries that fit, once the concurrent
\* writers of key KeyB have all returned, an entry cached for KeyB has a row
\* in the store with the same value.
C28_CacheAgreesWithStore ==
    (AllIdle /\ KeyB \in DOMAIN cache)
        => (KeyB \in DOMAIN store /\ store[KeyB] = cache[KeyB])

\* C29: every key the eviction loop pops is in the cache index when it is
\* popped (the branch for a popped key without an entry is never taken):
\* the popped keys are distinct keys of the index, each has its entry
\* erased, and current_size goes down by exactly the sizes of those entries.
C29_PoppedKeysResident ==
    [][\A t \in Threads :
         (InsertStep(t) /\ Size(key[t], value[t]) <= MAX_SIZE) =>
           LET k == key[t]
               old == IF k \in DOMAIN cache THEN Size(k, cache[k]) ELSE 0
               popped == Range(evicted')
           IN /\ NoDup(evicted')
              /\ popped \subseteq DOMAIN cache
              /\ DOMAIN cache' = (DOMAIN cache \ popped) \cup {k}
              /\ current_size' =
                    current_size - old
                      - ResidentBytes([x \in popped |-> cache[x]])
                      + Size(k, value[t])]_vars

C29_Witness ==
    /\ Len(evicted) = 1
    /\ last.op = "put"
    /\ last.key \notin Range(evicted)
    /\ DOMAIN cache = {last.key}
    /\ current_size = Size(last.key, cache[last.key])

\* C30: current_size never wraps around: in every reachable state it lies
\* within 0..MAX_SIZE.
C30_CounterInRange == current_size \in 0..MAX_SIZE

\* C31: the locked block of remove(k) touches only k in the cache: the index
\* loses k and nothing else, every other entry keeps its value, the queue
\* loses k and keeps all other keys in their relative order, and current_size
\* goes down by len(k) + len(value of k) if k was cached and by 0 otherwise.
C31_RemoveTouchesOnlyKey ==
    [][\A t \in Threads :
         (pc[t] = "rm_cache" /\ pc'[t] = "idle") =>
           LET k == key[t]
               others == Range(queue) \ {k}
           IN /\ DOMAIN cache' = DOMAIN cache \ {k}
              /\ \A x \in DOMAIN cache' : cache'[x] = cache[x]
              /\ Range(queue') = others
              /\ Len(queue') = Cardinality({i \in 1..Len(queue) : queue[i] # k})
              /\ \A x, y \in others :
                    Before(queue', x, y) <=> Before(queue, x, y)
              /\ current_size' = current_size -
                    (IF k \in DOMAIN cache THEN Size(k, cache[k]) ELSE 0)]_vars

\* C31 witness: a remove has taken a cached key out while two other keys were
\* resident; both are still cached and queued.
C31_Witness ==
    /\ last.op = "remove" /\ last.hit = "cache"
    /\ last.key \notin DOMAIN cache
    /\ Cardinality(DOMAIN cache) = 2
    /\ Len(queue) = 2 /\ Range(queue) = DOMAIN cache

====
